---- MODULE Spec2Model ----
(***************************************************************************)
(* Model of the GEE Dynamic World API (app/main.py, app/gee_client.py).    *)
(*                                                                         *)
(* One process serves two routes.  GET / answers with a fixed message.     *)
(* POST /chat runs run_gee_task: session initialization, coercion of the   *)
(* request parameters, five thumbnail requests, a histogram request and an *)
(* optional animated-thumbnail request, assembled into one result object.  *)
(* Both routes are `async def` bodies without an await, so a request runs  *)
(* to completion before the next one starts; the handler is modelled as a  *)
(* program counter walking its statements, with no interleaving.           *)
(*                                                                         *)
(* Every call into the Earth Engine client library may raise; the outcome  *)
(* of each such call is drawn nondeterministically.                        *)
(***************************************************************************)
EXTENDS Integers, Sequences, FiniteSets, TLC

VARIABLES
    envKey,       \* os.environ["GEE_SERVICE_ACCOUNT_KEY"]: KeyUnset, KeyValid, or
                  \* the text of the variable ("", "not json", "{bad", "{}", ...)
    initialized,  \* ee.data._initialized
    initCount,    \* number of ee.Initialize calls that returned normally (observer)
    startup,      \* startup_event: "pending", "ok", "failed"
    pc,           \* position in the handler: "idle" between requests, "done" once
                  \* the response is produced and before the frame is dropped
    params,       \* the request body `data` of the current POST /chat
    loc,          \* run_gee_task's local variables
    calls,        \* calls issued by the current handler, in order
    exc,          \* message of the exception in flight, NoExc if none
    resp          \* the response produced by the current handler

vars == <<envKey, initialized, initCount, startup, pc, params, loc, calls, exc, resp>>

(***************************************************************************)
(* Program constants.                                                      *)
(***************************************************************************)
YearFirst == 2020
YearLast == 2024
DefaultThumbDims == 768
DefaultVideoFps == 1
\* RECT_BOUNDS, in hundredths of a degree (54.16, 24.29, 54.74, 24.61)
RECT_BOUNDS == <<5416, 2429, 5474, 2461>>
RootMessage == "GEE Dynamic World API is running"
KeyNotSetMsg == "GEE_SERVICE_ACCOUNT_KEY not set in environment."

(***************************************************************************)
(* Bounds of the model.                                                    *)
(***************************************************************************)
\* integer years offered as inputs are YearFirst+1 .. YearFirst+1+YearSpan
YearSpan == 1
\* initCount saturates here
MaxInitCount == 2

(***************************************************************************)
(* JSON / Python values of a request field: a tag, an integer payload and  *)
(* (for a word) its text, a sequence of code points.                       *)
(*   absent      the key is not in the dict                                *)
(*   none        null                                                      *)
(*   int, bool   v is the number (bool: 0 or 1)                            *)
(*   str         a string of decimal digits that spells v                  *)
(*   digits      a string of v decimal digits, v > 4300                    *)
(*   word        the string s, which spells no number ("abc", "false", "") *)
(*   float       v is the value in tenths (20235 is 2023.5)                *)
(* The text of a word is over the code points 0 .. 160, ASCII and the      *)
(* Latin-1 controls, every one of which repr() prints in ASCII; the grave  *)
(* accent (96), which no TLA+ string can hold, is left out.                *)
(***************************************************************************)
Absent == [t |-> "absent", v |-> 0, s |-> <<>>]
NoneV == [t |-> "none", v |-> 0, s |-> <<>>]
IntV(n) == [t |-> "int", v |-> n, s |-> <<>>]
BoolV(b) == [t |-> "bool", v |-> IF b THEN 1 ELSE 0, s |-> <<>>]
StrV(n) == [t |-> "str", v |-> n, s |-> <<>>]
DigitsV(count) == [t |-> "digits", v |-> count, s |-> <<>>]
WordV(text) == [t |-> "word", v |-> 0, s |-> text]
FloatV(tenths) == [t |-> "float", v |-> tenths, s |-> <<>>]

\* dict.get(key, default)
Get(x, default) == IF x.t = "absent" THEN default ELSE x

\* the words offered as inputs: "abc", "false", "it's"
Abc == <<97, 98, 99>>
False5 == <<102, 97, 108, 115, 101>>
Its == <<105, 116, 39, 115>>

\* the printable ASCII characters, code points 32 .. 126 without 96
Printable ==
    <<" ", "!", "\"", "#", "$", "%", "&", "'", "(", ")", "*", "+", ",", "-", ".", "/",
      "0", "1", "2", "3", "4", "5", "6", "7", "8", "9", ":", ";", "<", "=", ">", "?",
      "@", "A", "B", "C", "D", "E", "F", "G", "H", "I", "J", "K", "L", "M", "N", "O",
      "P", "Q", "R", "S", "T", "U", "V", "W", "X", "Y", "Z", "[", "\\", "]", "^", "_",
      "a", "b", "c", "d", "e", "f", "g", "h", "i", "j", "k", "l", "m", "n", "o",
      "p", "q", "r", "s", "t", "u", "v", "w", "x", "y", "z", "{", "|", "}", "~">>
Chr(c) ==
    CASE c < 96 -> Printable[c - 31]
      [] c > 96 -> Printable[c - 32]
HexDigit(n) ==
    <<"0", "1", "2", "3", "4", "5", "6", "7", "8", "9", "a", "b", "c", "d", "e", "f">>[n + 1]

HasChar(text, c) == \E i \in 1..Len(text) : text[i] = c

\* repr() of a str picks the quote: double quotes (34) when the text holds an
\* apostrophe (39) and no double quote, apostrophes otherwise
ReprQuote(text) == IF HasChar(text, 39) /\ ~HasChar(text, 34) THEN 34 ELSE 39

\* repr() of one character inside quotes q: the backslash, the quote, tab,
\* newline and carriage return have their own escapes; every other character
\* that is not printable is written \xNN
ReprChar(c, q) ==
    CASE c = 92 -> <<"\\", "\\">>
      [] c = 10 -> <<"\\", "n">>
      [] c = 13 -> <<"\\", "r">>
      [] c = 9 -> <<"\\", "t">>
      [] c = q -> <<"\\", Chr(c)>>
      [] c < 32 \/ c > 126 -> <<"\\", "x", HexDigit(c \div 16), HexDigit(c % 16)>>
      [] OTHER -> <<Chr(c)>>

\* repr() of the characters of text, halving the text to keep the recursion shallow
RECURSIVE ReprChars(_, _)
ReprChars(text, q) ==
    IF Len(text) = 0 THEN <<>>
    ELSE IF Len(text) = 1 THEN ReprChar(text[1], q)
    ELSE ReprChars(SubSeq(text, 1, Len(text) \div 2), q)
            \o ReprChars(SubSeq(text, Len(text) \div 2 + 1, Len(text)), q)

\* the first n characters
Cut(chars, n) == SubSeq(chars, 1, IF Len(chars) < n THEN Len(chars) ELSE n)

\* the first 200 characters of repr(text); they depend on no more than the
\* first 200 characters of the text, and on the quote the whole text picks
PyRepr200(text) ==
    Cut(<<Chr(ReprQuote(text))>> \o ReprChars(Cut(text, 200), ReprQuote(text))
            \o <<Chr(ReprQuote(text))>>, 200)

\* the string spelled by the characters
RECURSIVE Join(_)
Join(chars) ==
    IF Len(chars) = 0 THEN ""
    ELSE IF Len(chars) = 1 THEN chars[1]
    ELSE Join(SubSeq(chars, 1, Len(chars) \div 2))
            \o Join(SubSeq(chars, Len(chars) \div 2 + 1, Len(chars)))

\* str(ValueError) of int() of a string with more than 4300 decimal digits
DigitLimitMsg(count) ==
    "Exceeds the limit (4300 digits) for integer string conversion: value has "
        \o ToString(count) \o " digits; use sys.set_int_max_str_digits() to increase the limit"

\* int() scans a text from the left: blanks, one sign, then a run of digits and
\* underscores.  The blanks are the ASCII ones and, of the other code points,
\* NEL (133) and the no-break space (160).
IsSpace(c) == c \in {9, 10, 11, 12, 13, 32, 133, 160}
IsDigit(c) == c \in 48..57
\* the first position at or after `from` whose character fails the test named
\* by kind ("space": a blank; "run": a digit or an underscore), Len + 1 if none
ScanEnd(text, from, kind) ==
    CHOOSE e \in from..(Len(text) + 1) :
        /\ \/ e = Len(text) + 1
           \/ IF kind = "space" THEN ~IsSpace(text[e])
              ELSE ~(IsDigit(text[e]) \/ text[e] = 95)
        /\ \A j \in from..(e - 1) :
              IF kind = "space" THEN IsSpace(text[j])
              ELSE IsDigit(text[j]) \/ text[j] = 95
\* where the run of digits and underscores starts: after the blanks and the sign
RunStart(text) ==
    LET s == ScanEnd(text, 1, "space") IN
    IF s <= Len(text) /\ text[s] \in {43, 45} THEN s + 1 ELSE s
\* the scan rejects a run that starts or ends with an underscore or holds two
\* in a row; otherwise it counts the digits of the run
RunMalformed(text) ==
    LET s == RunStart(text)
        e == ScanEnd(text, s, "run")
    IN  /\ s < e
        /\ \/ text[s] = 95
           \/ text[e - 1] = 95
           \/ \E j \in s..(e - 2) : text[j] = 95 /\ text[j + 1] = 95
RunDigits(text) ==
    LET s == RunStart(text)
        e == ScanEnd(text, s, "run")
    IN  Cardinality({j \in s..(e - 1) : IsDigit(text[j])})

\* str(ValueError) of int(text) for a text that spells no number.  A run of
\* more than 4300 digits is refused before the rest of the text is looked at;
\* otherwise the literal is formatted with %.200R.
ValueErrorMsg(text) ==
    IF ~RunMalformed(text) /\ RunDigits(text) > 4300
    THEN DigitLimitMsg(RunDigits(text))
    ELSE "invalid literal for int() with base 10: " \o Join(PyRepr200(text))
\* str(TypeError) of int(None)
TypeErrorMsg ==
    "int() argument must be a string, a bytes-like object or a real number, not 'NoneType'"

\* float -> int truncates toward zero
Trunc(tenths) == IF tenths >= 0 THEN tenths \div 10 ELSE -((-tenths) \div 10)

\* Python int(x): the integer, or the message of the exception raised
PyInt(x) ==
    CASE x.t \in {"int", "bool", "str"} -> [ok |-> TRUE, v |-> x.v, err |-> ""]
      [] x.t = "float" -> [ok |-> TRUE, v |-> Trunc(x.v), err |-> ""]
      [] x.t = "word" -> [ok |-> FALSE, v |-> 0, err |-> ValueErrorMsg(x.s)]
      [] x.t = "digits" -> [ok |-> FALSE, v |-> 0, err |-> DigitLimitMsg(x.v)]
      [] x.t = "none" -> [ok |-> FALSE, v |-> 0, err |-> TypeErrorMsg]

\* Python bool(x)
PyBool(x) ==
    CASE x.t \in {"int", "bool", "float"} -> x.v # 0
      [] x.t \in {"str", "digits"} -> TRUE
      [] x.t = "word" -> x.s # <<>>
      [] OTHER -> FALSE

(***************************************************************************)
(* The `bounds` field: a tag and the elements (hundredths of a degree).    *)
(* A "str" value stands for a string with Len(v) characters.               *)
(***************************************************************************)
NoBounds == [t |-> "absent", v |-> <<>>]
ListB(s) == [t |-> "list", v |-> s]
StrB(s) == [t |-> "str", v |-> s]

\* mutant: the supplied box is ignored
get_roi_always_default(bounds) == RECT_BOUNDS

\* get_roi_from_params: the coordinates handed to ee.Geometry.Rectangle
get_roi_from_params(bounds) ==
    IF /\ bounds.t \in {"list", "tuple", "str"}
       /\ Len(bounds.v) > 0
       /\ bounds.t \in {"list", "tuple"}
       /\ Len(bounds.v) = 4
    THEN bounds.v
    ELSE RECT_BOUNDS

(***************************************************************************)
(* Server-side objects are described by what was asked of the service.     *)
(***************************************************************************)
Img(kind, y1, y2, roi) == [kind |-> kind, y1 |-> y1, y2 |-> y2, roi |-> roi]
NoImg == Img("none", 0, 0, <<>>)

\* yearly_dw_label(year, roi).visualize(palette)
dw_vis(year, roi) == Img("dw", year, year, roi)
\* yearly_s2_rgb(year, roi)
yearly_s2_rgb(year, roi) == Img("s2", year, year, roi)
\* make_change_layer(yA, yB, roi)
make_change_layer(yA, yB, roi) == Img("change", yA, yB, roi)
\* yearly_dw_label(year, roi), the label image the histogram is taken of
yearly_dw_label(year, roi) == Img("dw_label", year, year, roi)
\* build_vis_collection_range(y_start, y_end, roi)
build_vis_collection_range(y_start, y_end, roi) == Img("dw_range", y_start, y_end, roi)

\* a URL names the request that produced it; NoUrl is Python's None / not yet set
Url(img, region, dims, fps) == [img |-> img, region |-> region, dims |-> dims, fps |-> fps]
NoUrl == Url(NoImg, <<>>, 0, 0)

\* image_thumbnail_url(image, region, dims)
image_thumbnail_url(image, region, dims) == Url(image, region, dims, 0)
\* collection_video_thumb_url(coll, region, fps, dims)
collection_video_thumb_url(coll, region, fps, dims) == Url(coll, region, dims, fps)

\* mutant: the true-color thumbnails are requested before the classified ones
ThumbKeysReordered == <<"s2_A_thumb", "s2_B_thumb", "dw_A_thumb", "dw_B_thumb", "change_thumb">>

\* the keys of `urls`, in the order the dict literal evaluates them
ThumbKeys == <<"dw_A_thumb", "dw_B_thumb", "s2_A_thumb", "s2_B_thumb", "change_thumb">>

\* mutant: the true-color composite of year A is built for year B
BuildImagesWrongYear(yearA, yearB, roi) ==
    [k \in {"dw_A_thumb", "dw_B_thumb", "s2_A_thumb", "s2_B_thumb", "change_thumb"} |->
        CASE k = "dw_A_thumb" -> dw_vis(yearA, roi)
          [] k = "dw_B_thumb" -> dw_vis(yearB, roi)
          [] k = "s2_A_thumb" -> yearly_s2_rgb(yearB, roi)
          [] k = "s2_B_thumb" -> yearly_s2_rgb(yearB, roi)
          [] OTHER -> make_change_layer(yearA, yearB, roi)]

\* the images built before the thumbnail requests, by the key that renders them
BuildImages(yearA, yearB, roi) ==
    [k \in {ThumbKeys[i] : i \in 1..Len(ThumbKeys)} |->
        CASE k = "dw_A_thumb" -> dw_vis(yearA, roi)
          [] k = "dw_B_thumb" -> dw_vis(yearB, roi)
          [] k = "s2_A_thumb" -> yearly_s2_rgb(yearA, roi)
          [] k = "s2_B_thumb" -> yearly_s2_rgb(yearB, roi)
          [] OTHER -> make_change_layer(yearA, yearB, roi)]

NoImages == [k \in {ThumbKeys[i] : i \in 1..Len(ThumbKeys)} |-> NoImg]
NoUrls == [k \in {ThumbKeys[i] : i \in 1..Len(ThumbKeys)} |-> NoUrl]

\* an entry of the call log
Call(op, img, region, dims, fps) ==
    [op |-> op, img |-> img, region |-> region, dims |-> dims, fps |-> fps]
PlainCall(op) == Call(op, NoImg, <<>>, 0, 0)

(***************************************************************************)
(* Exceptions and responses.                                               *)
(***************************************************************************)
NoExc == "<none>"
\* os.environ.get returned None; the variable holds a complete service-account key
KeyUnset == "<unset>"
KeyValid == "<service account key>"
\* the texts offered as the variable: those json.loads rejects, those it parses
NotJsonTexts == {"not json", "{bad", "{\"a\"", "[1,", " ", "nul", "{\"a\": 1"}
JsonTexts == {"{}", "[]", KeyValid}
\* str(JSONDecodeError) of json.loads(key) for the texts offered, NoExc when
\* the text parses
JsonErrorMsg(key) ==
    CASE key \in {"not json", "nul"} -> "Expecting value: line 1 column 1 (char 0)"
      [] key = " " -> "Expecting value: line 1 column 2 (char 1)"
      [] key = "[1," -> "Expecting value: line 1 column 4 (char 3)"
      [] key = "{bad" ->
            "Expecting property name enclosed in double quotes: line 1 column 2 (char 1)"
      [] key = "{\"a\"" -> "Expecting ':' delimiter: line 1 column 5 (char 4)"
      [] key = "{\"a\": 1" -> "Expecting ',' delimiter: line 1 column 8 (char 7)"
      [] key \in JsonTexts -> NoExc
\* what from_service_account_info(key_dict) may do with a parsed text: return
\* (NoExc), or raise with one of these messages.  The fields an object lacks
\* are listed in the iteration order of a set; a document that is no object
\* has no keys().
CredentialErrorMsgs(key) ==
    CASE key = "{}" ->
            {"Service account info was not in the expected format, missing fields client_email, token_uri.",
             "Service account info was not in the expected format, missing fields token_uri, client_email."}
      [] key = "[]" -> {"'list' object has no attribute 'keys'"}
      [] key = KeyValid -> {NoExc}
\* the choices an initializer call draws from; a text that does not parse
\* never reaches from_service_account_info
CredentialChoices(key) == IF key \in JsonTexts THEN CredentialErrorMsgs(key) ELSE {NoExc}

\* message of a failure raised by the Earth Engine client or service
ServiceErrorMsg == "Earth Engine request failed"

\* the two outcomes of a call into the client library
Outcomes == {"ok", "raise"}

NoHistogram == [kind |-> "unset", error |-> "", img |-> NoImg, region |-> <<>>]
\* reduceRegion(frequencyHistogram, roi, scale=30).getInfo()
Histogram(img, region) == [kind |-> "histogram", error |-> "", img |-> img, region |-> region]
\* {"error": str(e)}
HistogramError(msg) == [kind |-> "error", error |-> msg, img |-> NoImg, region |-> <<>>]

NoResult ==
    [summary |-> <<0, 0>>, yearA |-> 0, yearB |-> 0, urls |-> NoUrls,
     histogram_yearA |-> NoHistogram, video_url |-> NoUrl]

NoResp == [route |-> "none", status |-> 0, message |-> "", error |-> "", result |-> NoResult]

\* mutant: the status route depends on the session
RootResponseNeedsSession ==
    IF initialized
    THEN [route |-> "root", status |-> 200, message |-> RootMessage, error |-> "",
          result |-> NoResult]
    ELSE [route |-> "root", status |-> 500, message |-> "", error |-> KeyNotSetMsg,
          result |-> NoResult]

\* root(): {"message": ...}, status 200
RootResponse ==
    [route |-> "root", status |-> 200, message |-> RootMessage, error |-> "",
     result |-> NoResult]

\* chat(): JSONResponse(result)
ResultResponse(result) ==
    [route |-> "chat", status |-> 200, message |-> "", error |-> "", result |-> result]

\* mutant: the status_code argument is dropped
ErrorResponseNoStatus(msg) ==
    [route |-> "chat", status |-> 200, message |-> "", error |-> msg, result |-> NoResult]

\* chat(): JSONResponse({"error": str(e)}, status_code=500)
ErrorResponse(msg) ==
    [route |-> "chat", status |-> 500, message |-> "", error |-> msg, result |-> NoResult]

(***************************************************************************)
(* initialize_ee_from_env.  `cred` is what from_service_account_info does  *)
(* and `outcome` what ee.Initialize does when they are reached.            *)
(* ee.Initialize sets the flag ee.data._initialized before it returns; a   *)
(* call that raises may have set it already ("raise_flagged") or not       *)
(* ("raise").                                                              *)
(* Result: the new flag, the exception raised, the calls made, and whether *)
(* ee.Initialize returned normally.                                        *)
(***************************************************************************)
InitOutcomes == {"ok", "raise", "raise_flagged"}

\* the outcome of ee.Initialize(credentials)
ee_Initialize(outcome) ==
    [flag |-> outcome \in {"ok", "raise_flagged"},
     exc |-> IF outcome = "ok" THEN NoExc ELSE ServiceErrorMsg,
     log |-> <<PlainCall("environ_get"), PlainCall("ee_Initialize")>>,
     done |-> outcome = "ok"]

\* the key is read and raises before ee.Initialize is reached
KeyFailure(msg) ==
    [flag |-> FALSE, exc |-> msg, log |-> <<PlainCall("environ_get")>>, done |-> FALSE]

\* mutant: the `if ee.data._initialized: return` guard is missing
initialize_ee_unguarded(flag, key, cred, outcome) ==
    IF key \in {KeyUnset, ""} THEN [KeyFailure(KeyNotSetMsg) EXCEPT !.flag = flag]
    ELSE IF JsonErrorMsg(key) # NoExc THEN [KeyFailure(JsonErrorMsg(key)) EXCEPT !.flag = flag]
    ELSE IF cred # NoExc THEN [KeyFailure(cred) EXCEPT !.flag = flag]
    ELSE [ee_Initialize(outcome) EXCEPT !.flag = flag \/ ee_Initialize(outcome).flag]

initialize_ee_from_env(flag, key, cred, outcome) ==
    IF flag
    THEN [flag |-> TRUE, exc |-> NoExc, log |-> <<>>, done |-> FALSE]
    \* key_json = os.environ.get(...); if not key_json: raise RuntimeError
    ELSE IF key \in {KeyUnset, ""} THEN KeyFailure(KeyNotSetMsg)
    \* key_dict = json.loads(key_json)
    ELSE IF JsonErrorMsg(key) # NoExc THEN KeyFailure(JsonErrorMsg(key))
    \* credentials = service_account.Credentials.from_service_account_info(...)
    ELSE IF cred # NoExc THEN KeyFailure(cred)
    \* ee.Initialize(credentials)
    ELSE ee_Initialize(outcome)

Bump(n) == IF n < MaxInitCount THEN n + 1 ELSE n

(***************************************************************************)
(* run_gee_task's locals.                                                  *)
(***************************************************************************)
Loc0 ==
    [yearA |-> 0, yearB |-> 0, roi |-> <<>>, thumb_dims |-> 0,
     produce_video |-> FALSE, video_fps |-> 0, images |-> NoImages, i |-> 1,
     urls |-> NoUrls, freqA |-> NoHistogram, video_url |-> NoUrl]

\* mutant: the swap is dropped
OrderYearsNoSwap(a, b) == <<a, b>>

\* if yearA > yearB: yearA, yearB = yearB, yearA
OrderYears(a, b) == IF a > b THEN <<b, a>> ELSE <<a, b>>

\* mutant: the default of the flag is True
ProduceVideoDefaultTrue(video) == PyBool(Get(video, BoolV(TRUE)))

\* bool(params.get("video", False))
ProduceVideo(video) == PyBool(Get(video, BoolV(FALSE)))

\* the returned dict
Result(l) ==
    [summary |-> <<l.yearA, l.yearB>>, yearA |-> l.yearA, yearB |-> l.yearB,
     urls |-> l.urls, histogram_yearA |-> l.freqA, video_url |-> l.video_url]

(***************************************************************************)
(* Inputs.                                                                 *)
(***************************************************************************)
IntYears == (YearFirst + 1) .. (YearFirst + 1 + YearSpan)
YearInputs ==
    {Absent, NoneV, WordV(Abc), WordV(False5), StrV(YearLast + 1),
     FloatV(10 * YearFirst + 25)}
        \cup {IntV(y) : y \in IntYears}
BoundsInputs ==
    {NoBounds, ListB(<<>>), ListB(<<5400, 2400, 5500>>),
     ListB(<<5400, 2400, 5500, 2500>>), StrB(<<1, 2, 3, 4>>)}
DimsInputs == {Absent, IntV(256), WordV(Abc), WordV(Its)}
VideoInputs == {Absent, BoolV(FALSE), BoolV(TRUE), WordV(False5), WordV(<<>>)}
FpsInputs == {Absent, IntV(2), NoneV, DigitsV(4301)}

Requests ==
    [yearA : YearInputs, yearB : YearInputs, bounds : BoundsInputs,
     thumb_dims : DimsInputs, video : VideoInputs, video_fps : FpsInputs]

NoParams ==
    [yearA |-> Absent, yearB |-> Absent, bounds |-> NoBounds,
     thumb_dims |-> Absent, video |-> Absent, video_fps |-> Absent]

(***************************************************************************)
(* Initial state: the process has been created, the startup event has not  *)
(* run.  The environment is fixed for the life of the process.             *)
(***************************************************************************)
Init ==
    /\ envKey \in {KeyUnset, ""} \cup NotJsonTexts \cup JsonTexts
    /\ initialized = FALSE
    /\ initCount = 0
    /\ startup = "pending"
    /\ pc = "idle"
    /\ params = NoParams
    /\ loc = Loc0
    /\ calls = <<>>
    /\ exc = NoExc
    /\ resp = NoResp

\* raise: the exception leaves run_gee_task and reaches chat()'s except clause
Raise(msg) ==
    /\ exc' = msg
    /\ pc' = "except"

(***************************************************************************)
(* main.py                                                                 *)
(***************************************************************************)
\* startup_event(): initialize_ee_from_env() once, before any request.  The
\* routes stay callable whether or not it raised.
Startup ==
    /\ startup = "pending"
    /\ pc = "idle"
    /\ \E cred \in CredentialChoices(envKey), outcome \in InitOutcomes :
        LET r == initialize_ee_from_env(initialized, envKey, cred, outcome) IN
        /\ initialized' = r.flag
        /\ initCount' = IF r.done THEN Bump(initCount) ELSE initCount
        /\ calls' = r.log
        /\ startup' = IF r.exc = NoExc THEN "ok" ELSE "failed"
        /\ exc' = r.exc
    /\ pc' = "done"
    /\ UNCHANGED <<envKey, params, loc, resp>>

\* GET /
Root ==
    /\ startup # "pending"
    /\ pc = "idle"
    /\ resp' = RootResponse
    /\ pc' = "done"
    /\ UNCHANGED <<envKey, initialized, initCount, startup, params, loc, calls, exc>>

\* the response has been sent: the handler's frame and its locals are gone,
\* only the process-wide session state remains
Sent ==
    /\ pc = "done"
    /\ pc' = "idle"
    /\ params' = NoParams
    /\ loc' = Loc0
    /\ calls' = <<>>
    /\ exc' = NoExc
    /\ resp' = NoResp
    /\ UNCHANGED <<envKey, initialized, initCount, startup>>

\* POST /chat: the body arrives and run_gee_task(data) is entered
ChatBegin ==
    /\ startup # "pending"
    /\ pc = "idle"
    /\ \E data \in Requests : params' = data
    /\ pc' = "init"
    /\ UNCHANGED <<envKey, initialized, initCount, startup, loc, calls, exc, resp>>

\* chat(): return JSONResponse(result)
ChatReturn ==
    /\ pc = "return"
    /\ resp' = ResultResponse(Result(loc))
    /\ pc' = "done"
    /\ UNCHANGED <<envKey, initialized, initCount, startup, params, loc, calls, exc>>

\* chat(): except Exception as e: return JSONResponse({"error": str(e)}, 500)
ChatExcept ==
    /\ pc = "except"
    /\ resp' = ErrorResponse(exc)
    /\ pc' = "done"
    /\ UNCHANGED <<envKey, initialized, initCount, startup, params, loc, calls, exc>>

(***************************************************************************)
(* gee_client.py: run_gee_task, statement by statement                     *)
(***************************************************************************)
\* initialize_ee_from_env()
TaskInit ==
    /\ pc = "init"
    /\ \E cred \in CredentialChoices(envKey), outcome \in InitOutcomes :
        LET r == initialize_ee_from_env(initialized, envKey, cred, outcome) IN
        /\ initialized' = r.flag
        /\ initCount' = IF r.done THEN Bump(initCount) ELSE initCount
        /\ calls' = calls \o r.log
        /\ IF r.exc = NoExc
           THEN pc' = "years" /\ exc' = exc
           ELSE Raise(r.exc)
    /\ UNCHANGED <<envKey, startup, params, loc, resp>>

\* yearA = int(...); yearB = int(...); swap if out of order
TaskYears ==
    /\ pc = "years"
    /\ LET a == PyInt(Get(params.yearA, IntV(YearFirst)))
           b == PyInt(Get(params.yearB, IntV(YearLast)))
           o == OrderYears(a.v, b.v)
       IN  IF ~a.ok THEN Raise(a.err) /\ loc' = loc
           ELSE IF ~b.ok THEN Raise(b.err) /\ loc' = loc
           ELSE /\ loc' = [loc EXCEPT !.yearA = o[1], !.yearB = o[2]]
                /\ pc' = "roi"
                /\ exc' = exc
    /\ UNCHANGED <<envKey, initialized, initCount, startup, params, calls, resp>>

\* roi = get_roi_from_params(params)
TaskRoi ==
    /\ pc = "roi"
    /\ \E outcome \in Outcomes :
        IF outcome = "ok"
        THEN /\ loc' = [loc EXCEPT !.roi = get_roi_from_params(params.bounds)]
             /\ pc' = "opts"
             /\ exc' = exc
        ELSE Raise(ServiceErrorMsg) /\ loc' = loc
    /\ UNCHANGED <<envKey, initialized, initCount, startup, params, calls, resp>>

\* thumb_dims = int(...); produce_video = bool(...); video_fps = int(...)
TaskOpts ==
    /\ pc = "opts"
    /\ LET d == PyInt(Get(params.thumb_dims, IntV(DefaultThumbDims)))
           f == PyInt(Get(params.video_fps, IntV(DefaultVideoFps)))
       IN  IF ~d.ok THEN Raise(d.err) /\ loc' = loc
           ELSE IF ~f.ok THEN Raise(f.err) /\ loc' = loc
           ELSE /\ loc' = [loc EXCEPT !.thumb_dims = d.v,
                                      !.produce_video = ProduceVideo(params.video),
                                      !.video_fps = f.v]
                /\ pc' = "images"
                /\ exc' = exc
    /\ UNCHANGED <<envKey, initialized, initCount, startup, params, calls, resp>>

\* dw_vis_A, dw_vis_B, s2_vis_A, s2_vis_B, change_vis
TaskImages ==
    /\ pc = "images"
    /\ \E outcome \in Outcomes :
        IF outcome = "ok"
        THEN /\ loc' = [loc EXCEPT !.images = BuildImages(loc.yearA, loc.yearB, loc.roi)]
             /\ pc' = "thumb"
             /\ exc' = exc
        ELSE Raise(ServiceErrorMsg) /\ loc' = loc
    /\ UNCHANGED <<envKey, initialized, initCount, startup, params, calls, resp>>

\* urls = {...}: the next entry of the dict literal
TaskThumb ==
    /\ pc = "thumb"
    /\ LET k == ThumbKeys[loc.i]
           u == image_thumbnail_url(loc.images[k], loc.roi, loc.thumb_dims)
       IN  /\ calls' = Append(calls, Call(k, u.img, u.region, u.dims, u.fps))
           /\ \E outcome \in Outcomes :
                IF outcome = "ok"
                THEN /\ loc' = [loc EXCEPT !.urls[k] = u, !.i = loc.i + 1]
                     /\ pc' = IF loc.i = Len(ThumbKeys) THEN "hist" ELSE "thumb"
                     /\ exc' = exc
                ELSE Raise(ServiceErrorMsg) /\ loc' = loc
    /\ UNCHANGED <<envKey, initialized, initCount, startup, params, resp>>

\* try: freqA = ...reduceRegion(...).getInfo()  except: freqA = {"error": str(e)}
TaskHistogram ==
    /\ pc = "hist"
    /\ LET img == yearly_dw_label(loc.yearA, loc.roi) IN
        /\ calls' = Append(calls, Call("reduceRegion", img, loc.roi, 0, 0))
        /\ \E outcome \in Outcomes :
            loc' = [loc EXCEPT !.freqA =
                        IF outcome = "ok" THEN Histogram(img, loc.roi)
                        ELSE HistogramError(ServiceErrorMsg)]
    /\ pc' = "video"
    /\ UNCHANGED <<envKey, initialized, initCount, startup, params, exc, resp>>

\* video_url = None; if produce_video: vis_coll = build_vis_collection_range(...)
TaskVideoBuild ==
    /\ pc = "video"
    /\ IF ~loc.produce_video
       THEN /\ loc' = [loc EXCEPT !.video_url = NoUrl]
            /\ pc' = "return"
            /\ UNCHANGED <<calls, exc>>
       ELSE LET coll == build_vis_collection_range(loc.yearA, loc.yearB, loc.roi) IN
            /\ calls' = Append(calls, Call("build_vis_collection_range", coll, loc.roi, 0, 0))
            /\ \E outcome \in Outcomes :
                IF outcome = "ok"
                THEN /\ loc' = [loc EXCEPT !.video_url = NoUrl]
                     /\ pc' = "video_url"
                     /\ exc' = exc
                ELSE Raise(ServiceErrorMsg) /\ loc' = [loc EXCEPT !.video_url = NoUrl]
    /\ UNCHANGED <<envKey, initialized, initCount, startup, params, resp>>

\* try: video_url = collection_video_thumb_url(...)  except: video_url = None
TaskVideoUrl ==
    /\ pc = "video_url"
    /\ LET coll == build_vis_collection_range(loc.yearA, loc.yearB, loc.roi)
           u == collection_video_thumb_url(coll, loc.roi, loc.video_fps, loc.thumb_dims)
       IN  /\ calls' = Append(calls, Call("getVideoThumbURL", u.img, u.region, u.dims, u.fps))
           /\ \E outcome \in Outcomes :
                loc' = [loc EXCEPT !.video_url = IF outcome = "ok" THEN u ELSE NoUrl]
    /\ pc' = "return"
    /\ UNCHANGED <<envKey, initialized, initCount, startup, params, exc, resp>>

Next ==
    \/ Startup
    \/ Root
    \/ ChatBegin
    \/ TaskInit
    \/ TaskYears
    \/ TaskRoi
    \/ TaskOpts
    \/ TaskImages
    \/ TaskThumb
    \/ TaskHistogram
    \/ TaskVideoBuild
    \/ TaskVideoUrl
    \/ ChatReturn
    \/ ChatExcept
    \/ Sent

Spec == Init /\ [][Next]_vars

(***************************************************************************)
(* Observers used by the properties.                                       *)
(***************************************************************************)
ThumbKeySet == {"dw_A_thumb", "dw_B_thumb", "s2_A_thumb", "s2_B_thumb", "change_thumb"}
VideoOps == {"build_vis_collection_range", "getVideoThumbURL"}
ServiceOps == ThumbKeySet \cup VideoOps \cup {"ee_Initialize", "reduceRegion"}

OpsOf(log) == [i \in 1..Len(log) |-> log[i].op]
OpSet(log) == {log[i].op : i \in 1..Len(log)}
IsServiceCall(c) == c.op \in ServiceOps
IsPrefix(s, t) == Len(s) <= Len(t) /\ \A i \in 1..Len(s) : s[i] = t[i]

\* a POST /chat has produced its response
ChatDone == pc = "done" /\ resp.route = "chat"
UrlsPopulated(urls) == DOMAIN urls = ThumbKeySet /\ \A k \in ThumbKeySet : urls[k] # NoUrl

Min2(a, b) == IF a <= b THEN a ELSE b
Max2(a, b) == IF a <= b THEN b ELSE a

(***************************************************************************)
(* C1: whenever POST /chat answers 200, the returned yearA is <= the       *)
(* returned yearB, and the returned pair is the pair of coerced inputs     *)
(* (2020 and 2024 standing in for absent keys), unchanged or swapped:      *)
(* yearA is their minimum and yearB their maximum.                         *)
(***************************************************************************)
C1_YearsOrdered ==
    (ChatDone /\ resp.status = 200) =>
        LET a == PyInt(Get(params.yearA, IntV(2020))).v
            b == PyInt(Get(params.yearB, IntV(2024))).v
        IN  /\ resp.result.yearA <= resp.result.yearB
            /\ {resp.result.yearA, resp.result.yearB} = {a, b}
            /\ resp.result.yearA = Min2(a, b)
            /\ resp.result.yearB = Max2(a, b)

\* a 200 response to a request whose years arrived out of order
C1_Witness ==
    /\ ChatDone
    /\ resp.status = 200
    /\ params.yearA = IntV(2022)
    /\ params.yearB = IntV(2021)
    /\ resp.result.yearA = 2021
    /\ resp.result.yearB = 2022

(***************************************************************************)
(* C2: when a mandatory step of a POST /chat fails (session                *)
(* initialization, coercion of a malformed parameter, an image or          *)
(* thumbnail request) the route answers 500 with an `error` field holding  *)
(* the failure's message and no result object; a 200 answer is given only  *)
(* when no exception left run_gee_task.                                    *)
(***************************************************************************)
C2_MandatoryFailureIs500 ==
    ChatDone =>
        \* an exception that left run_gee_task becomes the 500 body
        /\ (exc # NoExc) =>
              /\ resp.status = 500
              /\ resp.error = exc
              /\ resp.result = NoResult
        /\ (resp.status = 200) => exc = NoExc
        \* session initialization: credential missing or invalid
        /\ (~initialized /\ envKey \in {KeyUnset, ""}) =>
              resp.status = 500 /\ resp.error = KeyNotSetMsg
        \* ... or not a usable key: the message is the one the failing step raised
        /\ (envKey # KeyValid) =>
              /\ resp.status = 500
              /\ exc # NoExc
              /\ resp.error = exc
              /\ resp.result = NoResult
              /\ OpSet(calls) = {"environ_get"}
        \* coercion of a malformed parameter
        /\ (\E f \in {"yearA", "yearB", "thumb_dims", "video_fps"} :
                params[f].t \in {"none", "word", "digits"}) => resp.status = 500
        \* ... with int()'s own message, unless initialization failed first
        /\ (envKey = KeyValid /\ params.yearA = WordV(<<97, 98, 99>>)) =>
              /\ resp.error \in {"invalid literal for int() with base 10: 'abc'",
                                 ServiceErrorMsg}
              /\ ("ee_Initialize" \notin OpSet(calls)) =>
                    resp.error = "invalid literal for int() with base 10: 'abc'"
        /\ (/\ "ee_Initialize" \notin OpSet(calls)
            /\ envKey = KeyValid
            /\ \A f \in {"yearA", "yearB"} : params[f].t \notin {"none", "word"}
            /\ params.thumb_dims = WordV(<<105, 116, 39, 115>>)
            /\ loc.roi # <<>>) =>
              resp.error = "invalid literal for int() with base 10: \"it's\""
        /\ (envKey = KeyValid /\ params.yearA = NoneV
              /\ "ee_Initialize" \notin OpSet(calls)) =>
              resp.error =
                "int() argument must be a string, a bytes-like object or a real number, not 'NoneType'"
        \* a thumbnail request that was issued and returned no URL
        /\ (\E k \in ThumbKeySet : k \in OpSet(calls) /\ loc.urls[k] = NoUrl) =>
              resp.status = 500 /\ resp.error = ServiceErrorMsg
        \* initialization, the region or the images failed: no thumbnail was requested
        /\ (OpSet(calls) \cap ThumbKeySet = {}) => resp.status = 500

\* the third thumbnail request failed and the route answered 500 with its message
C2_Witness ==
    /\ ChatDone
    /\ Len(calls) > 0
    /\ calls[Len(calls)].op = "s2_A_thumb"
    /\ loc.urls["dw_B_thumb"] # NoUrl
    /\ loc.urls["s2_A_thumb"] = NoUrl
    /\ resp.status = 500
    /\ resp.error = ServiceErrorMsg

(***************************************************************************)
(* C3: when the histogram request fails after initialization and the five  *)
(* thumbnail requests succeeded, the response is 200, histogram_yearA      *)
(* carries the failure message under `error`, and all five URLs are        *)
(* populated.                                                              *)
(***************************************************************************)
C3_HistogramFailureStill200 ==
    (ChatDone /\ loc.freqA.kind = "error") =>
        /\ resp.status = 200
        /\ resp.result.histogram_yearA = HistogramError(ServiceErrorMsg)
        /\ UrlsPopulated(resp.result.urls)

(***************************************************************************)
(* C4: with the video flag set, a failure anywhere in the animated-        *)
(* sequence step (building the frame collection or requesting its URL)     *)
(* gives video_url = null in a 200 response that still carries the five    *)
(* URLs and the histogram field.                                           *)
(***************************************************************************)
C4_VideoFailureYieldsNull ==
    (/\ ChatDone
     /\ "build_vis_collection_range" \in OpSet(calls)
     /\ loc.video_url = NoUrl) =>
        /\ resp.status = 200
        /\ resp.result.video_url = NoUrl
        /\ UrlsPopulated(resp.result.urls)
        /\ resp.result.histogram_yearA # NoHistogram

(***************************************************************************)
(* C5: when `video` is false or absent no animated-sequence call (neither  *)
(* the frame collection nor the animated-thumbnail URL) is issued during   *)
(* the request and a 200 response has video_url = null; an animated-       *)
(* sequence call is issued only when the field is truthy.                  *)
(***************************************************************************)
C5_NoVideoUnlessFlag ==
    /\ (params.video \in {Absent, BoolV(FALSE)}) =>
          /\ OpSet(calls) \cap VideoOps = {}
          /\ (ChatDone /\ resp.status = 200) => resp.result.video_url = NoUrl
    /\ (OpSet(calls) \cap VideoOps # {}) =>
          params.video \notin {Absent, NoneV, BoolV(FALSE), IntV(0), FloatV(0), WordV(<<>>)}

\* a 200 response to a request with "video": false
C5_Witness ==
    /\ ChatDone
    /\ resp.status = 200
    /\ params.video = BoolV(FALSE)
    /\ resp.result.video_url = NoUrl
    /\ "reduceRegion" \in OpSet(calls)

(***************************************************************************)
(* C6: the region is the default box when `bounds` is omitted and the      *)
(* supplied box when it is a list of four numbers; the resolved region is  *)
(* the one region of every image built and every request issued (the five  *)
(* thumbnails, the histogram, the video).                                  *)
(***************************************************************************)
C6_RegionUniform ==
    \A i \in 1..Len(calls) :
        (calls[i].op \in ServiceOps \ {"ee_Initialize"}) =>
            /\ calls[i].region = loc.roi
            /\ calls[i].img.roi = loc.roi
            /\ (params.bounds.t = "absent") =>
                  calls[i].region = <<5416, 2429, 5474, 2461>>
            /\ (params.bounds.t = "list" /\ Len(params.bounds.v) = 4) =>
                  calls[i].region = params.bounds.v

\* all seven requests of a call with a supplied box went out and succeeded
C6_Witness ==
    /\ ChatDone
    /\ resp.status = 200
    /\ params.bounds = ListB(<<5400, 2400, 5500, 2500>>)
    /\ resp.result.video_url # NoUrl
    /\ resp.result.video_url.region = <<5400, 2400, 5500, 2500>>
    /\ resp.result.histogram_yearA.kind = "histogram"

(***************************************************************************)
(* C7: every 200 response of POST /chat has `urls` with exactly the five   *)
(* keys, each holding the URL its own thumbnail request returned (the      *)
(* right image of the right year), none missing, whatever the histogram    *)
(* and video steps did.                                                    *)
(***************************************************************************)
C7_FiveUrls ==
    (ChatDone /\ resp.status = 200) =>
        LET u == resp.result.urls
            yA == resp.result.yearA
            yB == resp.result.yearB
        IN  /\ DOMAIN u = ThumbKeySet
            /\ \A k \in ThumbKeySet :
                /\ u[k] # NoUrl
                /\ \E i \in 1..Len(calls) :
                    /\ calls[i].op = k
                    /\ calls[i].img = u[k].img
                    /\ calls[i].region = u[k].region
                    /\ calls[i].dims = u[k].dims
            /\ u["dw_A_thumb"].img.kind = "dw" /\ u["dw_A_thumb"].img.y1 = yA
            /\ u["dw_B_thumb"].img.kind = "dw" /\ u["dw_B_thumb"].img.y1 = yB
            /\ u["s2_A_thumb"].img.kind = "s2" /\ u["s2_A_thumb"].img.y1 = yA
            /\ u["s2_B_thumb"].img.kind = "s2" /\ u["s2_B_thumb"].img.y1 = yB
            /\ u["change_thumb"].img.kind = "change"
            /\ u["change_thumb"].img.y1 = yA /\ u["change_thumb"].img.y2 = yB

\* a 200 response whose histogram failed and whose video URL is null
C7_Witness ==
    /\ ChatDone
    /\ resp.status = 200
    /\ resp.result.histogram_yearA.kind = "error"
    /\ loc.produce_video
    /\ resp.result.video_url = NoUrl
    /\ resp.result.yearA < resp.result.yearB

(***************************************************************************)
(* C8: GET / answers 200 with the fixed message in every state of the      *)
(* process, and answering it issues no call and leaves the session alone.  *)
(***************************************************************************)
C8_RootAlways200 ==
    [][(pc = "idle" /\ pc' = "done" /\ startup' = startup) =>
          /\ resp'.route = "root"
          /\ resp'.status = 200
          /\ resp'.message = "GEE Dynamic World API is running"
          /\ resp'.error = ""
          /\ calls' = calls
          /\ initialized' = initialized
          /\ initCount' = initCount]_vars

\* GET / answered while the credential is absent and startup initialization failed
C8_Witness ==
    /\ pc = "done"
    /\ resp.route = "root"
    /\ resp.status = 200
    /\ envKey = KeyUnset
    /\ startup = "failed"
    /\ ~initialized

(***************************************************************************)
(* C9: the session initializer is a singleton.  At most one ee.Initialize  *)
(* succeeds per process, and once one has succeeded the session is         *)
(* initialized.  The initializer is guarded by the flag                    *)
(* ee.data._initialized: once the flag is set it stays set and no later    *)
(* call reads the credential or calls ee.Initialize.  While the flag is    *)
(* unset and the credential is absent, a call raises the configuration     *)
(* error, initializes nothing and leaves the flag unset.                   *)
(***************************************************************************)
C9_InitOnce ==
    /\ [](initCount <= 1 /\ (initCount >= 1 => initialized))
    /\ [][initialized =>
            /\ initialized'
            /\ initCount' = initCount
            /\ \A i \in 1..Len(calls') :
                 (i > Len(calls)) => calls'[i].op \notin {"environ_get", "ee_Initialize"}]_vars
    /\ [][(/\ ~initialized
           /\ envKey = KeyUnset
           /\ (pc = "init" \/ (pc = "idle" /\ startup = "pending"))) =>
            /\ ~initialized'
            /\ initCount' = initCount
            /\ exc' = "GEE_SERVICE_ACCOUNT_KEY not set in environment."
            /\ pc' \in {"except", "done"}]_vars

\* a request served on a session whose flag startup had set: no second initialization
C9_Witness ==
    /\ ChatDone
    /\ resp.status = 200
    /\ startup = "ok"
    /\ initialized
    /\ initCount = 1
    /\ OpSet(calls) \cap {"environ_get", "ee_Initialize"} = {}

(***************************************************************************)
(* C10: the calls of a request go out in one fixed order: session          *)
(* initialization, the thumbnails dw_A, dw_B, s2_A, s2_B, change, the      *)
(* histogram, then the animated sequence (only with the video flag).  No   *)
(* call is issued once an exception is in flight, and the histogram and    *)
(* video requests go out only after all five thumbnails have succeeded.    *)
(***************************************************************************)
C10_FullOrder ==
    <<"ee_Initialize", "dw_A_thumb", "dw_B_thumb", "s2_A_thumb", "s2_B_thumb",
      "change_thumb", "reduceRegion", "build_vis_collection_range", "getVideoThumbURL">>

C10_SequentialOrder ==
    /\ [](LET ops == OpsOf(SelectSeq(calls, IsServiceCall)) IN
            /\ IsPrefix(ops, C10_FullOrder) \/ IsPrefix(ops, Tail(C10_FullOrder))
            /\ (OpSet(calls) \cap (VideoOps \cup {"reduceRegion"}) # {}) =>
                  \A k \in ThumbKeySet : loc.urls[k] # NoUrl
            /\ (OpSet(calls) \cap VideoOps # {}) => loc.produce_video)
    /\ [][(pc = "except") => calls' = calls]_vars
    /\ [][(pc \notin {"idle", "done"} /\ pc' \notin {"idle", "done"}) =>
            IsPrefix(calls, calls')]_vars

\* a request that initialized the session itself and issued every call
C10_Witness ==
    /\ ChatDone
    /\ resp.status = 200
    /\ OpsOf(SelectSeq(calls, IsServiceCall)) = C10_FullOrder

====
